---------------------------- MODULE Spec2Model ----------------------------
(***************************************************************************)
(* A model of the options trading simulator: the strategy payoff model of  *)
(* options_models.py and the day-stepped simulation engine of              *)
(* trading_engine.py (TradingEngine.run_simulation and the methods it      *)
(* calls).                                                                 *)
(*                                                                         *)
(* Representation.  Money and prices are Python floats in the source; here *)
(* they are exact integers counted in ticks of 0.01 currency unit, so      *)
(* 10000.00 is 1000000 and the price floor 0.01 is 1.  Fractions are kept  *)
(* exact: risk_per_trade is counted in hundredths (0.02 is 2), the         *)
(* factor 0.5 of the exit rule is applied by doubling the other side of    *)
(* the comparison.  Dates are day offsets from date.today().  float('inf') *)
(* is the value Infinity, distinct from every number.                      *)
(***************************************************************************)
EXTENDS Integers, Sequences, FiniteSets, TLC

VARIABLES
    cash,               \* TradingEngine.cash
    positions,          \* TradingEngine.positions (list of Position)
    trades,             \* TradingEngine.trades (list of Trade)
    strategies,         \* TradingEngine.strategies (registered, in order)
    config,             \* TradingEngine.config (SimulationConfig)
    current_date,       \* TradingEngine.current_date (offset from today)
    trade_counter,      \* TradingEngine.trade_counter
    pc,                 \* position of run_simulation's control
    day,                \* run_simulation's loop variable
    positions_to_close, \* run_simulation's local list (also the final copy)
    entry_index,        \* index of the strategy the entry loop is at
    result,             \* the dictionary run_simulation returns
    rng_tape,           \* the values the seeded generator yields, in order
    rng_pos,            \* how many of them have been consumed since seeding
    next_object,        \* allocation counter: identity of Position objects
    opened,             \* number of positions this run has opened
    closed_objects,     \* identities of the positions this run has closed
    registered,         \* the strategies as the caller constructed them
    run,                \* number of the current run_simulation call
    first_history,      \* trade history returned by the first run
    engine_fresh,       \* the engine of this run was newly constructed
    probe,              \* a strategy object a caller evaluates, and what it read
    trader              \* AutomatedTrader: its flag, its threads and their locals

vars == << cash, positions, trades, strategies, config, current_date,
           trade_counter, pc, day, positions_to_close, entry_index, result,
           rng_tape, rng_pos, next_object, opened, closed_objects,
           registered, run, first_history, engine_fresh, probe,
           trader >>

-----------------------------------------------------------------------------
(* Bounds of the model and constants of the program *)

\* largest simulation_days a configuration takes
MaxDays == 3
\* largest number of registered strategies
MaxStrategies == 2
\* execute_trade is called only while trade_counter is below this
MaxExecuted == 1
\* largest spot price of a profit and loss range
MaxSpot == 14
\* the AutomatedTrader's trading loop registers at most this many strategies
MaxAdded == 2

\* trading_engine.py:86  min(position_size, 10)
PositionCap == 10
\* trading_engine.py:148  max(new_price, 0.01), in ticks
PriceFloor == 1
\* date.today(): dates are offsets from it
date_today == 0

\* a value of get_max_profit: a number x is Finite(x), float('inf') is Infinity
Finite(x) == [inf |-> FALSE, value |-> x]
Infinity == [inf |-> TRUE, value |-> 0]

Max(a, b) == IF a >= b THEN a ELSE b
Min(a, b) == IF a <= b THEN a ELSE b
Abs(a) == IF a < 0 THEN -a ELSE a

\* int(num / den) of Python: the quotient truncated toward zero (den > 0)
TruncDiv(num, den) == IF num >= 0 THEN num \div den ELSE -((-num) \div den)

-----------------------------------------------------------------------------
(* options_models.py: the strategy variants.  A strategy is a record whose *)
(* fields are the attributes the constructor sets, so hasattr is a test on *)
(* the record's domain.                                                    *)

IronCondor(symbol, current_price, expiration, short_call_strike, long_call_strike, short_put_strike, long_put_strike, net_credit) ==
    [class |-> "IronCondor", symbol |-> symbol,
     current_price |-> current_price, expiration |-> expiration,
     entry_date |-> date_today,
     short_call_strike |-> short_call_strike,
     long_call_strike |-> long_call_strike,
     short_put_strike |-> short_put_strike,
     long_put_strike |-> long_put_strike,
     net_credit |-> net_credit]

Straddle(symbol, strike, current_price, expiration, call_premium, put_premium) ==
    [class |-> "Straddle", symbol |-> symbol,
     current_price |-> current_price, expiration |-> expiration,
     entry_date |-> date_today,
     strike |-> strike, call_premium |-> call_premium,
     put_premium |-> put_premium,
     total_cost |-> call_premium + put_premium]

Strangle(symbol, call_strike, put_strike, current_price, expiration, call_premium, put_premium) ==
    [class |-> "Strangle", symbol |-> symbol,
     current_price |-> current_price, expiration |-> expiration,
     entry_date |-> date_today,
     call_strike |-> call_strike, put_strike |-> put_strike,
     call_premium |-> call_premium, put_premium |-> put_premium,
     total_cost |-> call_premium + put_premium]

CallSpread(symbol, buy_strike, sell_strike, current_price, expiration, buy_premium, sell_premium) ==
    [class |-> "CallSpread", symbol |-> symbol,
     current_price |-> current_price, expiration |-> expiration,
     entry_date |-> date_today,
     buy_strike |-> buy_strike, sell_strike |-> sell_strike,
     buy_premium |-> buy_premium, sell_premium |-> sell_premium,
     net_debit |-> buy_premium - sell_premium]

PutSpread(symbol, buy_strike, sell_strike, current_price, expiration, buy_premium, sell_premium) ==
    [class |-> "PutSpread", symbol |-> symbol,
     current_price |-> current_price, expiration |-> expiration,
     entry_date |-> date_today,
     buy_strike |-> buy_strike, sell_strike |-> sell_strike,
     buy_premium |-> buy_premium, sell_premium |-> sell_premium,
     net_debit |-> buy_premium - sell_premium]

Butterfly(symbol, low_strike, middle_strike, high_strike, current_price, expiration, low_premium, middle_premium, high_premium) ==
    [class |-> "Butterfly", symbol |-> symbol,
     current_price |-> current_price, expiration |-> expiration,
     entry_date |-> date_today,
     low_strike |-> low_strike, middle_strike |-> middle_strike,
     high_strike |-> high_strike, low_premium |-> low_premium,
     middle_premium |-> middle_premium, high_premium |-> high_premium,
     net_debit |-> low_premium - (2 * middle_premium) + high_premium]

hasattr(strategy, name) == name \in DOMAIN strategy

days_to_expiration(strategy) == strategy.expiration - date_today

is_expired(strategy) == days_to_expiration(strategy) <= 0

IronCondor_calculate_payoff(s, stock_price) ==
    LET call_spread_payoff ==
            IF stock_price > s.short_call_strike
            THEN Min(stock_price - s.short_call_strike,
                     s.long_call_strike - s.short_call_strike)
            ELSE 0
        put_spread_payoff ==
            IF stock_price < s.short_put_strike
            THEN Min(s.short_put_strike - stock_price,
                     s.short_put_strike - s.long_put_strike)
            ELSE 0
        total_loss == call_spread_payoff + put_spread_payoff
    IN  s.net_credit - total_loss

Straddle_calculate_payoff(s, stock_price) ==
    LET call_payoff == Max(0, stock_price - s.strike) - s.call_premium
        put_payoff == Max(0, s.strike - stock_price) - s.put_premium
    IN  call_payoff + put_payoff

Strangle_calculate_payoff(s, stock_price) ==
    LET call_payoff == Max(0, stock_price - s.call_strike) - s.call_premium
        put_payoff == Max(0, s.put_strike - stock_price) - s.put_premium
    IN  call_payoff + put_payoff

CallSpread_calculate_payoff(s, stock_price) ==
    IF stock_price <= s.buy_strike THEN -s.net_debit
    ELSE IF stock_price <= s.sell_strike
         THEN (stock_price - s.buy_strike) - s.net_debit
         ELSE (s.sell_strike - s.buy_strike) - s.net_debit

PutSpread_calculate_payoff(s, stock_price) ==
    IF stock_price >= s.buy_strike THEN -s.net_debit
    ELSE IF stock_price >= s.sell_strike
         THEN (s.buy_strike - stock_price) - s.net_debit
         ELSE (s.buy_strike - s.sell_strike) - s.net_debit

Butterfly_calculate_payoff(s, stock_price) ==
    IF stock_price <= s.low_strike THEN -s.net_debit
    ELSE IF stock_price <= s.middle_strike
         THEN (stock_price - s.low_strike) - s.net_debit
         ELSE IF stock_price <= s.high_strike
              THEN (s.middle_strike - s.low_strike)
                   - (stock_price - s.middle_strike) - s.net_debit
              ELSE -s.net_debit

\* strategy.calculate_payoff(stock_price), dispatched on the class
calculate_payoff(strategy, stock_price) ==
    CASE strategy.class = "IronCondor" ->
             IronCondor_calculate_payoff(strategy, stock_price)
      [] strategy.class = "Straddle" ->
             Straddle_calculate_payoff(strategy, stock_price)
      [] strategy.class = "Strangle" ->
             Strangle_calculate_payoff(strategy, stock_price)
      [] strategy.class = "CallSpread" ->
             CallSpread_calculate_payoff(strategy, stock_price)
      [] strategy.class = "PutSpread" ->
             PutSpread_calculate_payoff(strategy, stock_price)
      [] strategy.class = "Butterfly" ->
             Butterfly_calculate_payoff(strategy, stock_price)

\* strategy.get_max_profit()
get_max_profit(strategy) ==
    CASE strategy.class = "IronCondor" -> Finite(strategy.net_credit)
      [] strategy.class = "Straddle" -> Infinity
      [] strategy.class = "Strangle" -> Infinity
      [] strategy.class = "CallSpread" ->
             Finite((strategy.sell_strike - strategy.buy_strike)
                    - strategy.net_debit)
      [] strategy.class = "PutSpread" ->
             Finite((strategy.buy_strike - strategy.sell_strike)
                    - strategy.net_debit)
      [] strategy.class = "Butterfly" ->
             Finite((strategy.middle_strike - strategy.low_strike)
                    - strategy.net_debit)

\* strategy.get_max_loss()
get_max_loss(strategy) ==
    CASE strategy.class = "IronCondor" ->
             LET call_spread_width ==
                     strategy.long_call_strike - strategy.short_call_strike
                 put_spread_width ==
                     strategy.short_put_strike - strategy.long_put_strike
             IN  Max(call_spread_width, put_spread_width)
                 - strategy.net_credit
      [] strategy.class = "Straddle" -> strategy.total_cost
      [] strategy.class = "Strangle" -> strategy.total_cost
      [] strategy.class = "CallSpread" -> strategy.net_debit
      [] strategy.class = "PutSpread" -> strategy.net_debit
      [] strategy.class = "Butterfly" -> strategy.net_debit

\* strategy.get_break_even_points(): the list of prices, in the order the
\* method returns them
get_break_even_points(strategy) ==
    CASE strategy.class = "IronCondor" ->
             LET upper_be == strategy.short_call_strike + strategy.net_credit
                 lower_be == strategy.short_put_strike - strategy.net_credit
             IN  << lower_be, upper_be >>
      [] strategy.class = "Straddle" ->
             LET upper_be == strategy.strike + strategy.total_cost
                 lower_be == strategy.strike - strategy.total_cost
             IN  << lower_be, upper_be >>
      [] strategy.class = "Strangle" ->
             LET upper_be == strategy.call_strike + strategy.total_cost
                 lower_be == strategy.put_strike - strategy.total_cost
             IN  << lower_be, upper_be >>
      [] strategy.class = "CallSpread" ->
             << strategy.buy_strike + strategy.net_debit >>
      [] strategy.class = "PutSpread" ->
             << strategy.buy_strike - strategy.net_debit >>
      [] strategy.class = "Butterfly" ->
             LET lower_be == strategy.low_strike + strategy.net_debit
                 upper_be == strategy.high_strike - strategy.net_debit
             IN  << lower_be, upper_be >>

\* strategy.get_profit_loss_range(price_range): the payoff at each price
get_profit_loss_range(strategy, price_range) ==
    [price \in price_range |-> calculate_payoff(strategy, price)]

-----------------------------------------------------------------------------
(* strategy_analyzer.py.  A quotient is the exact fraction num / den or    *)
(* float('inf'); a probability is counted in tenths, and so is an expected *)
(* value (a probability times an amount).                                  *)

Ratio(num, den) == [inf |-> FALSE, num |-> num, den |-> den]
RatioInfinity == [inf |-> TRUE, num |-> 0, den |-> 1]

\* lines 35-43
calculate_risk_reward_ratio(strategy) ==
    LET max_profit == get_max_profit(strategy)
        max_loss == Abs(get_max_loss(strategy))
    IN  IF max_loss = 0
        THEN IF max_profit.inf \/ max_profit.value > 0
             THEN RatioInfinity ELSE Ratio(0, 1)
        ELSE IF ~max_profit.inf THEN Ratio(max_profit.value, max_loss)
             ELSE Ratio(0, 1)

\* lines 45-68, in tenths
calculate_probability_of_profit(strategy) ==
    LET current_price == strategy.current_price
        break_even_points == get_break_even_points(strategy)
    IN  IF Len(break_even_points) = 1
        THEN IF current_price > break_even_points[1] THEN 6 ELSE 4
        ELSE IF Len(break_even_points) = 2
        THEN IF /\ break_even_points[1] <= current_price
                /\ current_price <= break_even_points[2]
             THEN 3 ELSE 7
        ELSE 5

\* lines 70-82, in tenths
calculate_expected_value(strategy) ==
    LET prob_profit == calculate_probability_of_profit(strategy)
        max_loss == get_max_loss(strategy)
        max_profit == IF get_max_profit(strategy).inf
                      THEN Abs(max_loss) * 2
                      ELSE get_max_profit(strategy).value
    IN  (prob_profit * max_profit) + ((10 - prob_profit) * max_loss)

\* a quotient exceeds the fraction a / b (b > 0)
RatioAbove(r, a, b) == r.inf \/ r.num * b > a * r.den

\* a mutant of get_recommendation: the test of "WEAK BUY" comes first
get_recommendation_weak_first(strategy) ==
    LET risk_reward == calculate_risk_reward_ratio(strategy)
        prob_profit == calculate_probability_of_profit(strategy)
        expected_value == calculate_expected_value(strategy)
    IN  IF expected_value > 0 THEN "WEAK BUY"
        ELSE IF /\ expected_value > 0
                /\ RatioAbove(risk_reward, 3, 2)
                /\ prob_profit > 6
        THEN "STRONG BUY"
        ELSE IF /\ expected_value > 0
                /\ RatioAbove(risk_reward, 1, 1)
                /\ prob_profit > 5
        THEN "BUY"
        ELSE IF 2 * expected_value < -(10 * Abs(get_max_loss(strategy)))
        THEN "AVOID"
        ELSE "HOLD"

\* lines 177-192
get_recommendation(strategy) ==
    LET risk_reward == calculate_risk_reward_ratio(strategy)
        prob_profit == calculate_probability_of_profit(strategy)
        expected_value == calculate_expected_value(strategy)
    IN  IF /\ expected_value > 0
           /\ RatioAbove(risk_reward, 3, 2)
           /\ prob_profit > 6
        THEN "STRONG BUY"
        ELSE IF /\ expected_value > 0
                /\ RatioAbove(risk_reward, 1, 1)
                /\ prob_profit > 5
        THEN "BUY"
        ELSE IF expected_value > 0 THEN "WEAK BUY"
        ELSE IF 2 * expected_value < -(10 * Abs(get_max_loss(strategy)))
        THEN "AVOID"
        ELSE "HOLD"

-----------------------------------------------------------------------------
(* trading_engine.py: inputs of a run *)

\* The registered strategies are drawn from this catalogue.  Prices are in
\* ticks; the reference price at construction is 15625 (156.25) but for 7.
\*  1  an Iron Condor with the documented max_loss of 2.50, 40 days
\*  2  an Iron Condor 10 days from expiration, on the same symbol, with
\*     the larger max_loss of 4.00
\*  3  a Straddle, 20 days from expiration
\*  4  a Call Spread sold for more than it costs (net_debit < 0), 3 days
\*  5  a Call Spread whose premiums cancel (net_debit = 0)
\*  6  a Put Spread that expires today
\*  7  a Straddle constructed at its upper break-even price (160.00), where
\*     its payoff is 0
Catalogue ==
    << IronCondor("AAPL", 15625, 40, 16000, 16500, 15000, 14500, 250),
       IronCondor("AAPL", 15625, 10, 17000, 17600, 14000, 13400, 200),
       Straddle("TSLA", 15625, 15625, 20, 1500, 1200),
       CallSpread("TSLA", 12250, 22250, 15625, 3, 200, 300),
       CallSpread("AAPL", 15000, 16000, 15625, 20, 300, 300),
       PutSpread("TSLA", 16000, 15000, 15625, 0, 500, 200),
       Straddle("AAPL", 15000, 16000, 20, 600, 400) >>

RECURSIVE SeqsUpTo(_, _)
\* the sequences over S of length at most n
SeqsUpTo(S, n) ==
    IF n = 0 THEN { <<>> }
    ELSE LET shorter == SeqsUpTo(S, n - 1)
         IN  shorter \cup { Append(q, x) : q \in shorter, x \in S }

\* the lists of strategies a caller registers with add_strategy
StrategyLists ==
    { [i \in 1..Len(q) |-> Catalogue[q[i]]] :
          q \in SeqsUpTo(1..Len(Catalogue), MaxStrategies) }

\* SimulationConfig: capital in ticks, risk_per_trade in hundredths
Configs ==
    [initial_capital : {0, 135000, 1000000},
     risk_per_trade : {2},
     max_concurrent_trades : {0, 1, 2},
     simulation_days : 0..MaxDays]

\* random.normalvariate(0.0005, 0.02): the daily returns the generator may
\* yield, as exact fractions
DailyReturns == { [num |-> -1, den |-> 5], [num |-> 0, den |-> 5],
                  [num |-> 1, den |-> 5] }

-----------------------------------------------------------------------------
(* trading_engine.py: Trade, Position and the helpers of the engine *)

\* f"{n:04d}"
Format04d(n) ==
    IF n < 0 THEN "-" \o (IF -n < 10 THEN "00" ELSE IF -n < 100 THEN "0" ELSE "") \o ToString(-n)
    ELSE (IF n < 10 THEN "000" ELSE IF n < 100 THEN "00"
          ELSE IF n < 1000 THEN "0" ELSE "") \o ToString(n)

\* the fields of the Position dataclass; a position of the model carries
\* three more, which are not program state: object (the identity of the
\* Python object), strategy_index (the registered strategy it was opened
\* from) and cash_at_entry
PositionFields ==
    { "id", "symbol", "strategy_type", "entry_date", "entry_price",
      "quantity", "current_price", "unrealized_pnl" }

\* Position.__eq__ as @dataclass generates it: field by field
Position_eq(p, q) == \A f \in PositionFields : p[f] = q[f]

\* next((s for s in self.strategies if s.symbol == symbol), None): the index
\* of the first registered strategy with the symbol, 0 for None
find_strategy(strats, symbol) ==
    IF \E k \in 1..Len(strats) : strats[k].symbol = symbol
    THEN CHOOSE k \in 1..Len(strats) :
             /\ strats[k].symbol = symbol
             /\ \A j \in 1..(k - 1) : strats[j].symbol # symbol
    ELSE 0

\* next((p for p in self.positions if p.symbol == symbol), None)
find_position(ps, symbol) ==
    IF \E k \in 1..Len(ps) : ps[k].symbol = symbol
    THEN CHOOSE k \in 1..Len(ps) :
             /\ ps[k].symbol = symbol
             /\ \A j \in 1..(k - 1) : ps[j].symbol # symbol
    ELSE 0

\* a mutant of list_remove: the first element is removed, whatever x is
list_remove_first(ps, x) == Tail(ps)

\* list.remove(x): the list without its first element equal to x
list_remove(ps, x) ==
    IF \E k \in 1..Len(ps) : Position_eq(ps[k], x)
    THEN LET k == CHOOSE k \in 1..Len(ps) :
                      /\ Position_eq(ps[k], x)
                      /\ \A j \in 1..(k - 1) : ~Position_eq(ps[j], x)
         IN  [i \in 1..(Len(ps) - 1) |-> IF i < k THEN ps[i] ELSE ps[i + 1]]
    ELSE ps

\* a mutant of calculate_position_size: the risk is taken on the initial
\* capital instead of the cash at hand
calculate_position_size_initial_capital(strategy) ==
    LET max_loss == Abs(get_max_loss(strategy))
    IN  IF max_loss <= 0 THEN 0
        ELSE Min(TruncDiv(config.initial_capital * config.risk_per_trade,
                          100 * max_loss),
                 PositionCap)

calculate_position_size(strategy) ==
    LET max_loss == Abs(get_max_loss(strategy))
    IN  IF max_loss <= 0 THEN 0
        ELSE Min(TruncDiv(cash * config.risk_per_trade, 100 * max_loss),
                 PositionCap)

\* a mutant of should_enter_trade: the check of max_concurrent_trades is
\* missing
should_enter_trade_no_limit(strategy) ==
    LET days_to_exp == days_to_expiration(strategy)
    IN  IF calculate_position_size(strategy) <= 0 THEN FALSE
        ELSE IF is_expired(strategy) THEN FALSE
        ELSE IF strategy.class = strategies[1].class
                /\ hasattr(strategy, "net_credit")
             THEN 30 <= days_to_exp /\ days_to_exp <= 45
        ELSE IF hasattr(strategy, "total_cost")
             THEN 15 <= days_to_exp /\ days_to_exp <= 30
        ELSE TRUE

should_enter_trade(strategy) ==
    LET days_to_exp == days_to_expiration(strategy)
    IN  IF calculate_position_size(strategy) <= 0 THEN FALSE
        ELSE IF Len(positions) >= config.max_concurrent_trades THEN FALSE
        ELSE IF is_expired(strategy) THEN FALSE
        ELSE IF strategy.class = strategies[1].class
                /\ hasattr(strategy, "net_credit")
             THEN 30 <= days_to_exp /\ days_to_exp <= 45
        ELSE IF hasattr(strategy, "total_cost")
             THEN 15 <= days_to_exp /\ days_to_exp <= 30
        ELSE TRUE

should_exit_trade(position, strategy) ==
    LET days_held == current_date - position.entry_date
        current_pnl == position.unrealized_pnl
        max_profit == get_max_profit(strategy)
        max_loss == get_max_loss(strategy)
    IN  IF is_expired(strategy) THEN TRUE
        ELSE IF 2 * days_held >= days_to_expiration(strategy) THEN TRUE
        ELSE IF ~max_profit.inf /\ 2 * current_pnl >= max_profit.value
             THEN TRUE
        ELSE IF 2 * current_pnl <= max_loss THEN TRUE
        ELSE FALSE

\* daily_return is the value random.normalvariate yields for this call
simulate_price_movement(symbol, current_price, days, daily_return) ==
    LET price_change ==
            (current_price * daily_return.num * days) \div daily_return.den
        new_price == current_price + price_change
    IN  Max(new_price, PriceFloor)

RECURSIVE update_from(_, _, _, _)
\* the loop of update_positions from position i on: ps and strats are the
\* lists as updated so far, draws the generator's next values
update_from(i, ps, strats, draws) ==
    IF i > Len(ps) THEN [positions |-> ps, strategies |-> strats]
    ELSE LET k == find_strategy(strats, ps[i].symbol)
         IN  IF k = 0 THEN update_from(i + 1, ps, strats, draws)
             ELSE LET price == simulate_price_movement(
                                   ps[i].symbol, ps[i].current_price, 1,
                                   Head(draws))
                      strats2 == [strats EXCEPT ![k].current_price = price]
                      pnl == calculate_payoff(strats2[k], price)
                             * ps[i].quantity
                      ps2 == [ps EXCEPT ![i].current_price = price,
                                        ![i].unrealized_pnl = pnl]
                  IN  update_from(i + 1, ps2, strats2, Tail(draws))

\* the number of values update_positions asks the generator for
draws_needed ==
    Cardinality({ i \in 1..Len(positions) :
                      find_strategy(strategies, positions[i].symbol) # 0 })

\* a mutant of NextDraws: the generator ignores the seed
NextDraws_unseeded(n) == [1..n -> DailyReturns]

\* the next n values of the generator: those the seed has already fixed
\* (on the tape beyond rng_pos) are replayed, the others are free
NextDraws(n) ==
    { d \in [1..n -> DailyReturns] :
          \A i \in 1..n :
              rng_pos + i <= Len(rng_tape) => d[i] = rng_tape[rng_pos + i] }

\* the tape once the n values d have been drawn
TapeAfter(d, n) ==
    [i \in 1..Max(Len(rng_tape), rng_pos + n) |->
         IF i <= Len(rng_tape) THEN rng_tape[i] ELSE d[i - rng_pos]]

\* TradingEngine.update_positions
update_positions ==
    \E d \in NextDraws(draws_needed) :
        LET after == update_from(1, positions, strategies, d)
        IN  /\ positions' = after.positions
            /\ strategies' = after.strategies
            /\ rng_tape' = TapeAfter(d, draws_needed)
            /\ rng_pos' = rng_pos + draws_needed

\* a mutant of close_position: the pnl is recorded and not added to cash
close_position_cash_kept(position) ==
    LET k == find_strategy(strategies, position.symbol)
    IN  IF k = 0
        THEN UNCHANGED << cash, trades, trade_counter, positions,
                          strategies, closed_objects >>
        ELSE LET pnl == calculate_payoff(strategies[k],
                                         position.current_price)
                        * position.quantity
                 trade == [id |-> "T" \o Format04d(trade_counter),
                           symbol |-> position.symbol,
                           strategy_type |-> position.strategy_type,
                           entry_date |-> position.entry_date,
                           exit_date |-> current_date,
                           entry_price |-> position.entry_price,
                           exit_price |-> position.current_price,
                           quantity |-> position.quantity,
                           pnl |-> pnl,
                           action |-> "SELL"]
             IN  /\ strategies' =
                        [strategies EXCEPT
                             ![k].current_price = position.current_price]
                 /\ cash' = cash
                 /\ trade_counter' = trade_counter + 1
                 /\ trades' = Append(trades, trade)
                 /\ positions' = list_remove(positions, position)
                 /\ closed_objects' = Append(closed_objects, position.object)

\* a mutant of close_position: trade_counter is not incremented
close_position_counter_kept(position) ==
    LET k == find_strategy(strategies, position.symbol)
    IN  IF k = 0
        THEN UNCHANGED << cash, trades, trade_counter, positions,
                          strategies, closed_objects >>
        ELSE LET pnl == calculate_payoff(strategies[k],
                                         position.current_price)
                        * position.quantity
                 trade == [id |-> "T" \o Format04d(trade_counter),
                           symbol |-> position.symbol,
                           strategy_type |-> position.strategy_type,
                           entry_date |-> position.entry_date,
                           exit_date |-> current_date,
                           entry_price |-> position.entry_price,
                           exit_price |-> position.current_price,
                           quantity |-> position.quantity,
                           pnl |-> pnl,
                           action |-> "SELL"]
             IN  /\ strategies' =
                        [strategies EXCEPT
                             ![k].current_price = position.current_price]
                 /\ cash' = cash + pnl
                 /\ trade_counter' = trade_counter
                 /\ trades' = Append(trades, trade)
                 /\ positions' = list_remove(positions, position)
                 /\ closed_objects' = Append(closed_objects, position.object)

\* TradingEngine.close_position
close_position(position) ==
    LET k == find_strategy(strategies, position.symbol)
    IN  IF k = 0
        THEN UNCHANGED << cash, trades, trade_counter, positions,
                          strategies, closed_objects >>
        ELSE LET pnl == calculate_payoff(strategies[k],
                                         position.current_price)
                        * position.quantity
                 trade == [id |-> "T" \o Format04d(trade_counter),
                           symbol |-> position.symbol,
                           strategy_type |-> position.strategy_type,
                           entry_date |-> position.entry_date,
                           exit_date |-> current_date,
                           entry_price |-> position.entry_price,
                           exit_price |-> position.current_price,
                           quantity |-> position.quantity,
                           pnl |-> pnl,
                           action |-> "SELL"]
             IN  /\ strategies' =
                        [strategies EXCEPT
                             ![k].current_price = position.current_price]
                 /\ cash' = cash + pnl
                 /\ trade_counter' = trade_counter + 1
                 /\ trades' = Append(trades, trade)
                 /\ positions' = list_remove(positions, position)
                 /\ closed_objects' = Append(closed_objects, position.object)

\* a mutant of enter_strategy: the lookup of an open position on the
\* strategy's symbol is missing
enter_strategy_no_lookup(index) ==
    LET strategy == strategies[index]
        position_size == calculate_position_size(strategy)
        position ==
            [id |-> "P" \o Format04d(Len(positions) + 1),
             symbol |-> strategy.symbol,
             strategy_type |-> strategy.class,
             entry_date |-> current_date,
             entry_price |-> strategy.current_price,
             quantity |-> position_size,
             current_price |-> strategy.current_price,
             unrealized_pnl |-> 0,
             object |-> next_object,
             strategy_index |-> index,
             cash_at_entry |-> cash]
    IN  IF /\ should_enter_trade(strategy)
           /\ position_size > 0
        THEN /\ positions' = Append(positions, position)
             /\ next_object' = next_object + 1
             /\ opened' = opened + 1
        ELSE UNCHANGED << positions, next_object, opened >>

\* run_simulation, lines 267-286: the entry loop's body for one strategy
enter_strategy(index) ==
    LET strategy == strategies[index]
        position_size == calculate_position_size(strategy)
        position ==
            [id |-> "P" \o Format04d(Len(positions) + 1),
             symbol |-> strategy.symbol,
             strategy_type |-> strategy.class,
             entry_date |-> current_date,
             entry_price |-> strategy.current_price,
             quantity |-> position_size,
             current_price |-> strategy.current_price,
             unrealized_pnl |-> 0,
             object |-> next_object,
             strategy_index |-> index,
             cash_at_entry |-> cash]
    IN  IF /\ should_enter_trade(strategy)
           /\ find_position(positions, strategy.symbol) = 0
           /\ position_size > 0
        THEN /\ positions' = Append(positions, position)
             /\ next_object' = next_object + 1
             /\ opened' = opened + 1
        ELSE UNCHANGED << positions, next_object, opened >>

-----------------------------------------------------------------------------
(* run_simulation as a state machine *)

NoResult == [returned |-> FALSE]

\* no strategy object is under evaluation
NoProbe == [phase |-> "none"]

\* no AutomatedTrader is running
NoTrader == [running |-> FALSE]

\* TradingEngine.__init__: the fields of a new engine (SimulationConfig's
\* defaults: 10000.0, 0.02, 5, 30)
TradingEngine_init ==
    [cash |-> 1000000, positions |-> << >>, trades |-> << >>,
     strategies |-> << >>,
     config |-> [initial_capital |-> 1000000, risk_per_trade |-> 2,
                 max_concurrent_trades |-> 5, simulation_days |-> 30],
     current_date |-> date_today, trade_counter |-> 0]

\* a new engine after set_config(c) and add_strategy(s) for each s of
\* strats, in order
configured_engine(c, strats) ==
    [TradingEngine_init EXCEPT !.config = c, !.cash = c.initial_capital,
                               !.strategies = @ \o strats]

Init ==
    /\ registered \in StrategyLists
    /\ \E c \in Configs :
           LET engine == configured_engine(c, registered)
           IN  /\ config = engine.config
               /\ strategies = engine.strategies
               /\ cash = engine.cash
               /\ positions = engine.positions
               /\ trades = engine.trades
               /\ current_date = engine.current_date
               /\ trade_counter = engine.trade_counter
    /\ pc = "idle"
    /\ day = 0
    /\ positions_to_close = << >>
    /\ entry_index = 1
    /\ result = NoResult
    /\ rng_tape = << >>
    /\ rng_pos = 0
    /\ next_object = 1
    /\ opened = 0
    /\ closed_objects = << >>
    /\ run = 1
    /\ first_history = << >>
    /\ engine_fresh = TRUE
    /\ probe = NoProbe
    /\ trader = NoTrader

\* a mutant of RunStart: the trade history is not cleared
RunStart_trades_kept ==
    /\ pc = "idle"
    /\ cash' = config.initial_capital
    /\ positions' = << >>
    /\ trades' = trades
    /\ current_date' = date_today
    /\ day' = 0
    /\ opened' = 0
    /\ closed_objects' = << >>
    /\ result' = NoResult
    /\ pc' = "loop"
    /\ UNCHANGED << strategies, registered, config, trade_counter,
                    positions_to_close, entry_index, rng_tape, rng_pos,
                    next_object, run, first_history, engine_fresh,
                    probe, trader >>

\* lines 240-244: reset state
RunStart ==
    /\ pc = "idle"
    /\ cash' = config.initial_capital
    /\ positions' = << >>
    /\ trades' = << >>
    /\ current_date' = date_today
    /\ day' = 0
    /\ opened' = 0
    /\ closed_objects' = << >>
    /\ result' = NoResult
    /\ pc' = "loop"
    /\ UNCHANGED << strategies, registered, config, trade_counter,
                    positions_to_close, entry_index, rng_tape, rng_pos,
                    next_object, run, first_history, engine_fresh,
                    probe, trader >>

\* lines 247-251: the day begins and the open positions are updated
DayUpdate ==
    /\ pc = "loop"
    /\ day < config.simulation_days
    /\ current_date' = date_today + day
    /\ update_positions
    /\ pc' = "exits"
    /\ UNCHANGED << cash, trades, registered, config, trade_counter, day,
                    positions_to_close, entry_index, result, next_object,
                    opened, closed_objects, run, first_history,
                    engine_fresh,
                    probe, trader >>

\* lines 254-258: the positions the exit rule selects
CheckExits ==
    /\ pc = "exits"
    /\ positions_to_close' =
           SelectSeq(positions,
                     LAMBDA p :
                         LET k == find_strategy(strategies, p.symbol)
                         IN  k # 0 /\ should_exit_trade(p, strategies[k]))
    /\ pc' = "close"
    /\ UNCHANGED << cash, positions, trades, strategies, registered, config,
                    current_date, trade_counter, day, entry_index, result,
                    rng_tape, rng_pos, next_object, opened, closed_objects,
                    run, first_history, engine_fresh,
                    probe, trader >>

\* lines 261-264: one iteration of the closing loop
CloseNext ==
    /\ pc = "close"
    /\ positions_to_close # << >>
    /\ close_position(Head(positions_to_close))
    /\ positions_to_close' = Tail(positions_to_close)
    /\ UNCHANGED << registered, config, current_date, pc, day, entry_index,
                    result, rng_tape, rng_pos, next_object, opened, run,
                    first_history, engine_fresh,
                    probe, trader >>

CloseDone ==
    /\ pc = "close"
    /\ positions_to_close = << >>
    /\ pc' = "entries"
    /\ entry_index' = 1
    /\ UNCHANGED << cash, positions, trades, strategies, registered, config,
                    current_date, trade_counter, day, positions_to_close,
                    result, rng_tape, rng_pos, next_object, opened,
                    closed_objects, run, first_history, engine_fresh,
                    probe, trader >>

\* lines 267-287: one iteration of the entry loop
EnterNext ==
    /\ pc = "entries"
    /\ entry_index <= Len(strategies)
    /\ enter_strategy(entry_index)
    /\ entry_index' = entry_index + 1
    /\ UNCHANGED << cash, trades, strategies, registered, config,
                    current_date, trade_counter, pc, day,
                    positions_to_close, result, rng_tape, rng_pos,
                    closed_objects, run, first_history, engine_fresh,
                    probe, trader >>

\* a mutant of DayEnd: the exit rule is evaluated once more after the
\* entries of the day
DayEnd_exits_after_entries ==
    /\ pc = "entries"
    /\ entry_index > Len(strategies)
    /\ day' = day
    /\ pc' = "exits"
    /\ UNCHANGED << cash, positions, trades, strategies, registered, config,
                    current_date, trade_counter, positions_to_close,
                    entry_index, result, rng_tape, rng_pos, next_object,
                    opened, closed_objects, run, first_history,
                    engine_fresh,
                    probe, trader >>

\* the day's iteration ends
DayEnd ==
    /\ pc = "entries"
    /\ entry_index > Len(strategies)
    /\ day' = day + 1
    /\ pc' = "loop"
    /\ UNCHANGED << cash, positions, trades, strategies, registered, config,
                    current_date, trade_counter, positions_to_close,
                    entry_index, result, rng_tape, rng_pos, next_object,
                    opened, closed_objects, run, first_history,
                    engine_fresh,
                    probe, trader >>

\* a mutant of LoopExit: the final closing loop is missing
LoopExit_no_final_close ==
    /\ pc = "loop"
    /\ day >= config.simulation_days
    /\ positions_to_close' = << >>
    /\ pc' = "final"
    /\ UNCHANGED << cash, positions, trades, strategies, registered, config,
                    current_date, trade_counter, day, entry_index, result,
                    rng_tape, rng_pos, next_object, opened, closed_objects,
                    run, first_history, engine_fresh,
                    probe, trader >>

\* line 290: the loop over the days is over; self.positions[:] is copied
LoopExit ==
    /\ pc = "loop"
    /\ day >= config.simulation_days
    /\ positions_to_close' = positions
    /\ pc' = "final"
    /\ UNCHANGED << cash, positions, trades, strategies, registered, config,
                    current_date, trade_counter, day, entry_index, result,
                    rng_tape, rng_pos, next_object, opened, closed_objects,
                    run, first_history, engine_fresh,
                    probe, trader >>

\* lines 290-293: one iteration of the final closing loop
FinalCloseNext ==
    /\ pc = "final"
    /\ positions_to_close # << >>
    /\ close_position(Head(positions_to_close))
    /\ positions_to_close' = Tail(positions_to_close)
    /\ UNCHANGED << registered, config, current_date, pc, day, entry_index,
                    result, rng_tape, rng_pos, next_object, opened, run,
                    first_history, engine_fresh,
                    probe, trader >>

\* a mutant of calculate_results: the rate of the losing trades is reported
calculate_results_rate_of_losses ==
    LET total_trades == Len(trades)
        winning_trades ==
            Cardinality({ i \in 1..Len(trades) : trades[i].pnl > 0 })
        losing_trades == total_trades - winning_trades
        win_rate ==
            IF total_trades > 0
            THEN [num |-> losing_trades * 100, den |-> total_trades]
            ELSE [num |-> 0, den |-> 1]
    IN  IF config.initial_capital = 0
        THEN /\ pc' = "raised"
             /\ result' = NoResult
        ELSE /\ pc' = "done"
             /\ result' =
                    [returned |-> TRUE,
                     final_value |-> cash,
                     total_return |->
                         [num |-> (cash - config.initial_capital) * 100,
                          den |-> config.initial_capital],
                     total_trades |-> total_trades,
                     winning_trades |-> winning_trades,
                     losing_trades |-> losing_trades,
                     win_rate |-> win_rate,
                     trades |-> trades]

\* lines 295-311: the result.  A quotient is kept as the exact fraction
\* [num, den]; dividing by a zero initial_capital raises ZeroDivisionError
calculate_results ==
    LET total_trades == Len(trades)
        winning_trades ==
            Cardinality({ i \in 1..Len(trades) : trades[i].pnl > 0 })
        losing_trades == total_trades - winning_trades
        win_rate ==
            IF total_trades > 0
            THEN [num |-> winning_trades * 100, den |-> total_trades]
            ELSE [num |-> 0, den |-> 1]
    IN  IF config.initial_capital = 0
        THEN /\ pc' = "raised"
             /\ result' = NoResult
        ELSE /\ pc' = "done"
             /\ result' =
                    [returned |-> TRUE,
                     final_value |-> cash,
                     total_return |->
                         [num |-> (cash - config.initial_capital) * 100,
                          den |-> config.initial_capital],
                     total_trades |-> total_trades,
                     winning_trades |-> winning_trades,
                     losing_trades |-> losing_trades,
                     win_rate |-> win_rate,
                     trades |-> trades]

Return ==
    /\ pc = "final"
    /\ positions_to_close = << >>
    /\ calculate_results
    /\ UNCHANGED << cash, positions, trades, strategies, registered, config,
                    current_date, trade_counter, day, positions_to_close,
                    entry_index, rng_tape, rng_pos, next_object, opened,
                    closed_objects, run, first_history, engine_fresh,
                    probe, trader >>

\* the caller seeds the generator as before the first run and calls
\* run_simulation again on the same engine
RunAgain ==
    /\ pc = "done"
    /\ run = 1
    /\ run' = 2
    /\ first_history' = result.trades
    /\ rng_pos' = 0
    /\ engine_fresh' = FALSE
    /\ pc' = "idle"
    /\ UNCHANGED << cash, positions, trades, strategies, registered, config,
                    current_date, trade_counter, day, positions_to_close,
                    entry_index, result, rng_tape, next_object, opened,
                    closed_objects,
                    probe, trader >>

\* the caller seeds the generator as before the first run, constructs a new
\* engine with the same configuration and the same strategies, constructed
\* anew, and calls run_simulation on it
RunFresh ==
    /\ pc = "done"
    /\ run = 1
    /\ run' = 2
    /\ first_history' = result.trades
    /\ rng_pos' = 0
    /\ engine_fresh' = TRUE
    /\ pc' = "idle"
    /\ LET engine == configured_engine(config, registered)
       IN  /\ config' = engine.config
           /\ strategies' = engine.strategies
           /\ cash' = engine.cash
           /\ positions' = engine.positions
           /\ trades' = engine.trades
           /\ current_date' = engine.current_date
           /\ trade_counter' = engine.trade_counter
    /\ UNCHANGED << registered, day, positions_to_close, entry_index,
                    result, rng_tape, next_object, opened, closed_objects,
                    probe, trader >>

Next ==
    \/ RunStart
    \/ DayUpdate
    \/ CheckExits
    \/ CloseNext
    \/ CloseDone
    \/ EnterNext
    \/ DayEnd
    \/ LoopExit
    \/ FinalCloseNext
    \/ Return

Spec == Init /\ [][Next]_vars

\* two runs with the same seed
NextRerun ==
    \/ Next
    \/ RunAgain
    \/ RunFresh

SpecRerun == Init /\ [][NextRerun]_vars

\* the configurations a caller sets between two runs
Reconfigs ==
    { c \in Configs : c.max_concurrent_trades = 2 /\ c.simulation_days = 2 }

\* set_config(c), called between two runs
SetConfig ==
    /\ pc = "idle"
    /\ \E c \in Reconfigs :
           /\ config' = c
           /\ cash' = c.initial_capital
    /\ UNCHANGED << positions, trades, strategies, registered, current_date,
                    trade_counter, pc, day, positions_to_close, entry_index,
                    result, rng_tape, rng_pos, next_object, opened,
                    closed_objects, run, first_history, engine_fresh,
                    probe, trader >>

\* lines 150-181: execute_trade(strategy, action).  The Trade it returns is
\* not stored in the engine.  A "SELL" of a strategy whose max_profit is
\* float('inf') is not among the calls drawn
execute_trade(strategy, action) ==
    LET position_size == calculate_position_size(strategy)
        trade_value ==
            IF action = "BUY"
            THEN Abs(get_max_loss(strategy)) * position_size
            ELSE Abs(get_max_profit(strategy).value) * position_size
    IN  IF position_size <= 0
        THEN UNCHANGED << cash, trade_counter >>
        ELSE IF action = "BUY" /\ trade_value > cash
        THEN UNCHANGED << cash, trade_counter >>
        ELSE /\ cash' = IF action = "BUY" THEN cash - trade_value
                        ELSE cash + trade_value
             /\ trade_counter' = trade_counter + 1

ExecuteTrade ==
    /\ pc = "idle"
    /\ trade_counter < MaxExecuted
    /\ \E i \in 1..Len(strategies), action \in {"BUY", "SELL"} :
           /\ action = "SELL" => ~get_max_profit(strategies[i]).inf
           /\ execute_trade(strategies[i], action)
    /\ UNCHANGED << positions, trades, strategies, registered, config,
                    current_date, pc, day, positions_to_close, entry_index,
                    result, rng_tape, rng_pos, next_object, opened,
                    closed_objects, run, first_history, engine_fresh,
                    probe, trader >>

\* the operations of one engine: runs, set_config and execute_trade between
\* the runs
NextOps ==
    \/ Next
    \/ RunAgain
    \/ SetConfig
    \/ ExecuteTrade

SpecOps == Init /\ [][NextOps]_vars

-----------------------------------------------------------------------------
(* A caller constructs one strategy object and reads its payoff model.     *)
(* The arithmetic of options_models.py is the same in every unit, so the   *)
(* strikes, premiums and spot prices of this part are small numbers.       *)

\* the parameters a caller passes to a constructor: strikes (all multiples
\* of 3, so that two spot prices lie strictly between neighbouring strikes),
\* premiums or credits, and expirations (offsets from today)
ProbeStrikes == {-3, 3, 6, 9, 12}
ProbePremiums == {-1, 0, 1, 2}
ProbeExpirations == {0, 20}

\* the strategy objects the caller may construct
Constructible ==
    UNION {
        { IronCondor("AAPL", 6, e, sc, lc, sp, lp, c) :
              e \in ProbeExpirations, c \in ProbePremiums,
              sc \in ProbeStrikes, lc \in ProbeStrikes,
              sp \in ProbeStrikes, lp \in ProbeStrikes },
        { Straddle("AAPL", k, 6, e, cp, pp) :
              e \in ProbeExpirations, k \in ProbeStrikes,
              cp \in ProbePremiums, pp \in ProbePremiums },
        { Strangle("AAPL", ck, pk, 6, e, cp, pp) :
              e \in ProbeExpirations, ck \in ProbeStrikes,
              pk \in ProbeStrikes, cp \in ProbePremiums,
              pp \in ProbePremiums },
        { CallSpread("AAPL", b, sl, 6, e, bp, sp) :
              e \in ProbeExpirations, b \in ProbeStrikes,
              sl \in ProbeStrikes, bp \in ProbePremiums,
              sp \in ProbePremiums },
        { PutSpread("AAPL", b, sl, 6, e, bp, sp) :
              e \in ProbeExpirations, b \in ProbeStrikes,
              sl \in ProbeStrikes, bp \in ProbePremiums,
              sp \in ProbePremiums },
        { Butterfly("AAPL", l, m, h, 6, e, lp, mp, hp) :
              e \in ProbeExpirations, l \in ProbeStrikes,
              m \in ProbeStrikes, h \in ProbeStrikes,
              lp \in ProbePremiums, mp \in ProbePremiums,
              hp \in ProbePremiums } }

\* the strikes of a strategy, in the order the variant is meant for
Strikes(s) ==
    CASE s.class = "IronCondor" ->
             << s.long_put_strike, s.short_put_strike,
                s.short_call_strike, s.long_call_strike >>
      [] s.class = "Straddle" -> << s.strike >>
      [] s.class = "Strangle" -> << s.put_strike, s.call_strike >>
      [] s.class = "CallSpread" -> << s.buy_strike, s.sell_strike >>
      [] s.class = "PutSpread" -> << s.sell_strike, s.buy_strike >>
      [] s.class = "Butterfly" ->
             << s.low_strike, s.middle_strike, s.high_strike >>

\* the premiums (or the credit) a strategy was constructed with
Premiums(s) ==
    CASE s.class = "IronCondor" -> << s.net_credit >>
      [] s.class = "Straddle" -> << s.call_premium, s.put_premium >>
      [] s.class = "Strangle" -> << s.call_premium, s.put_premium >>
      [] s.class = "CallSpread" -> << s.buy_premium, s.sell_premium >>
      [] s.class = "PutSpread" -> << s.buy_premium, s.sell_premium >>
      [] s.class = "Butterfly" ->
             << s.low_premium, s.middle_premium, s.high_premium >>

Ordered(q) == \A i \in 1..(Len(q) - 1) : q[i] <= q[i + 1]

\* the variables of the engine, which the caller does not touch
engine_vars == << cash, positions, trades, strategies, config, current_date,
                 trade_counter, pc, day, positions_to_close, entry_index,
                 result, rng_tape, rng_pos, next_object, opened,
                 closed_objects, registered, run, first_history,
                 engine_fresh >>

\* p = Cls(...): OptionsStrategy.__init__ and the variant's __init__ assign
\* the attributes; nothing is checked
Construct ==
    /\ probe.phase = "none"
    /\ \E s \in Constructible :
           probe' = [phase |-> "constructed", strategy |-> s]
    /\ UNCHANGED << engine_vars, trader >>

\* p.get_max_profit() and p.get_max_loss()
MaxProfitLoss ==
    /\ probe.phase = "constructed"
    /\ probe' = [phase |-> "max_profit_loss",
                 strategy |-> probe.strategy,
                 max_profit |-> get_max_profit(probe.strategy),
                 max_loss |-> get_max_loss(probe.strategy)]
    /\ UNCHANGED << engine_vars, trader >>

\* p.get_profit_loss_range(range(0, MaxSpot + 1))
ProfitLossRange ==
    /\ probe.phase = "constructed"
    /\ probe' = [phase |-> "profit_loss",
                 strategy |-> probe.strategy,
                 profit_loss |->
                     get_profit_loss_range(probe.strategy, 0..MaxSpot)]
    /\ UNCHANGED << engine_vars, trader >>

\* p.get_break_even_points(), then p.calculate_payoff at each of them
BreakEvenPoints ==
    /\ probe.phase = "constructed"
    /\ LET points == get_break_even_points(probe.strategy)
       IN  probe' = [phase |-> "break_even",
                     strategy |-> probe.strategy,
                     break_even_points |-> points,
                     payoffs |->
                         [i \in 1..Len(points) |->
                              calculate_payoff(probe.strategy, points[i])]]
    /\ UNCHANGED << engine_vars, trader >>

\* StrategyAnalyzer().analyze_strategy(p): the entries of the analysis this
\* model keeps
AnalyzeStrategy ==
    /\ probe.phase = "constructed"
    /\ probe' = [phase |-> "analysis",
                 strategy |-> probe.strategy,
                 max_profit |-> get_max_profit(probe.strategy),
                 max_loss |-> get_max_loss(probe.strategy),
                 risk_reward_ratio |->
                     calculate_risk_reward_ratio(probe.strategy),
                 probability_of_profit |->
                     calculate_probability_of_profit(probe.strategy),
                 expected_value |->
                     calculate_expected_value(probe.strategy),
                 recommendation |-> get_recommendation(probe.strategy)]
    /\ UNCHANGED << engine_vars, trader >>

\* no strategy is constructed yet; the engine is new and stays so
InitPayoff ==
    /\ probe = NoProbe
    /\ trader = NoTrader
    /\ registered = << >>
    /\ config = TradingEngine_init.config
    /\ strategies = TradingEngine_init.strategies
    /\ cash = TradingEngine_init.cash
    /\ positions = TradingEngine_init.positions
    /\ trades = TradingEngine_init.trades
    /\ current_date = TradingEngine_init.current_date
    /\ trade_counter = TradingEngine_init.trade_counter
    /\ pc = "idle"
    /\ day = 0
    /\ positions_to_close = << >>
    /\ entry_index = 1
    /\ result = NoResult
    /\ rng_tape = << >>
    /\ rng_pos = 0
    /\ next_object = 1
    /\ opened = 0
    /\ closed_objects = << >>
    /\ run = 1
    /\ first_history = << >>
    /\ engine_fresh = TRUE

NextPayoff ==
    \/ Construct
    \/ MaxProfitLoss
    \/ ProfitLossRange
    \/ BreakEvenPoints
    \/ AnalyzeStrategy

SpecPayoff == InitPayoff /\ [][NextPayoff]_vars

-----------------------------------------------------------------------------
(* automated_trader.py: AutomatedTrader.start_trading has started the      *)
(* monitoring, trading and dashboard threads over one TradingEngine.  A    *)
(* thread can be preempted between any two of its steps.                   *)

RECURSIVE SumUnrealized(_)
\* the sum of position.unrealized_pnl over a list of positions
SumUnrealized(ps) ==
    IF ps = << >> THEN 0
    ELSE Head(ps).unrealized_pnl + SumUnrealized(Tail(ps))

\* trading_engine.py lines 313-323: get_portfolio()
get_portfolio ==
    [cash |-> cash,
     total_value |-> cash + SumUnrealized(positions),
     positions |-> positions]

\* AutomatedTrader.__init__ lines 33-45: max_positions and the configuration
\* it sets (10000.00, 0.02, 5 positions, 365 days)
max_positions == 5
AutomatedTrader_config ==
    [initial_capital |-> 1000000, risk_per_trade |-> 2,
     max_concurrent_trades |-> max_positions, simulation_days |-> 365]

\* the objects _create_strategy_object builds (an Iron Condor, a Straddle)
TraderStrategies == { Catalogue[1], Catalogue[3] }

\* the variables no thread of the AutomatedTrader writes
untouched_by_trader ==
    << cash, positions, trades, config, current_date, trade_counter, pc,
       day, positions_to_close, entry_index, result, rng_tape, rng_pos,
       next_object, opened, closed_objects, registered, run, first_history,
       engine_fresh, probe >>

\* start_trading lines 58-74: running is set and the three threads started
InitTrader ==
    /\ LET engine == configured_engine(AutomatedTrader_config, << >>)
       IN  /\ config = engine.config
           /\ strategies = engine.strategies
           /\ cash = engine.cash
           /\ positions = engine.positions
           /\ trades = engine.trades
           /\ current_date = engine.current_date
           /\ trade_counter = engine.trade_counter
    /\ trader = [running |-> TRUE, monitoring |-> "loop",
                 trading |-> "loop", dashboard |-> "loop",
                 strategy_obj |-> NoProbe, trade_log |-> 0,
                 total_trades |-> 0, total_value |-> 0,
                 portfolio |-> NoResult]
    /\ registered = << >>
    /\ pc = "idle"
    /\ day = 0
    /\ positions_to_close = << >>
    /\ entry_index = 1
    /\ result = NoResult
    /\ rng_tape = << >>
    /\ rng_pos = 0
    /\ next_object = 1
    /\ opened = 0
    /\ closed_objects = << >>
    /\ run = 1
    /\ first_history = << >>
    /\ engine_fresh = TRUE
    /\ probe = NoProbe

\* lines 82-98: _monitoring_loop; it does not touch the engine
MonitoringLoop ==
    /\ \/ /\ trader.monitoring = "loop"
          /\ trader' = [trader EXCEPT
                            !.monitoring = IF trader.running THEN "sleep"
                                           ELSE "exit"]
       \/ /\ trader.monitoring = "sleep"
          /\ trader' = [trader EXCEPT !.monitoring = "loop"]
    /\ UNCHANGED << strategies, untouched_by_trader >>

\* lines 100-122 and 163-175: _trading_loop up to _should_trade, which reads
\* len(self.trading_engine.positions); the hour of the day is any
TradingLoop ==
    /\ \/ /\ trader.trading = "loop"
          /\ trader' = [trader EXCEPT
                            !.trading = IF trader.running THEN "should_trade"
                                        ELSE "exit"]
       \/ /\ trader.trading = "should_trade"
          /\ \/ trader' = [trader EXCEPT !.trading = "sleep"]
             \/ /\ Len(positions) < max_positions
                /\ Len(strategies) < MaxAdded
                /\ trader' = [trader EXCEPT !.trading = "generate"]
       \/ /\ trader.trading = "sleep"
          /\ trader' = [trader EXCEPT !.trading = "loop"]
    /\ UNCHANGED << strategies, untouched_by_trader >>

\* lines 177-202 and 237-250: _generate_ai_strategy returns a recommendation
\* or None; _execute_strategy builds the strategy object, or gets None
ExecuteStrategy ==
    /\ trader.trading = "generate"
    /\ \/ trader' = [trader EXCEPT !.trading = "sleep"]
       \/ \E obj \in TraderStrategies :
              trader' = [trader EXCEPT !.trading = "add_strategy",
                                       !.strategy_obj = obj]
    /\ UNCHANGED << strategies, untouched_by_trader >>

\* line 252 and trading_engine.py lines 69-71: add_strategy appends
AddStrategy ==
    /\ trader.trading = "add_strategy"
    /\ strategies' = Append(strategies, trader.strategy_obj)
    /\ trader' = [trader EXCEPT !.trading = "log"]
    /\ UNCHANGED untouched_by_trader

\* lines 254-268: the trade is logged and counted
LogTrade ==
    /\ trader.trading = "log"
    /\ trader' = [trader EXCEPT !.trading = "sleep",
                                !.trade_log = @ + 1,
                                !.total_trades = @ + 1]
    /\ UNCHANGED << strategies, untouched_by_trader >>

\* lines 124-132: _dashboard_loop calls _display_dashboard, which calls
\* get_portfolio (line 334)
DashboardLoop ==
    /\ \/ /\ trader.dashboard = "loop"
          /\ trader' = [trader EXCEPT
                            !.dashboard = IF trader.running
                                          THEN "get_portfolio" ELSE "exit"]
       \/ /\ trader.dashboard = "print"
          /\ trader' = [trader EXCEPT !.dashboard = "sleep"]
       \/ /\ trader.dashboard = "sleep"
          /\ trader' = [trader EXCEPT !.dashboard = "loop"]
    /\ UNCHANGED << strategies, untouched_by_trader >>

\* trading_engine.py lines 315-317: total_value is summed from cash and the
\* open positions
GetPortfolioTotal ==
    /\ trader.dashboard = "get_portfolio"
    /\ trader' = [trader EXCEPT !.dashboard = "portfolio_return",
                                !.total_value = get_portfolio.total_value]
    /\ UNCHANGED << strategies, untouched_by_trader >>

\* trading_engine.py lines 319-323: the dictionary is built from cash and
\* the positions, read again
GetPortfolioReturn ==
    /\ trader.dashboard = "portfolio_return"
    /\ trader' = [trader EXCEPT
                      !.dashboard = "print",
                      !.portfolio = [get_portfolio EXCEPT
                                         !.total_value = trader.total_value]]
    /\ UNCHANGED << strategies, untouched_by_trader >>

\* lines 76-80 and 386-388: the main thread clears running
StopTrading ==
    /\ trader.running
    /\ trader' = [trader EXCEPT !.running = FALSE]
    /\ UNCHANGED << strategies, untouched_by_trader >>

NextTrader ==
    \/ MonitoringLoop
    \/ TradingLoop
    \/ ExecuteStrategy
    \/ AddStrategy
    \/ LogTrade
    \/ DashboardLoop
    \/ GetPortfolioTotal
    \/ GetPortfolioReturn
    \/ StopTrading

SpecTrader == InitTrader /\ [][NextTrader]_vars

-----------------------------------------------------------------------------
(* Properties *)

IsPrefix(a, b) == Len(a) <= Len(b) /\ SubSeq(b, 1, Len(a)) = a

OpenObjects(ps) == { ps[i].object : i \in 1..Len(ps) }

\* the registered strategy a position was opened from
OwnStrategy(p) == strategies[p.strategy_index]

\* run_simulation is about to call close_position(Head(positions_to_close))
AtCloseCall == pc \in {"close", "final"} /\ positions_to_close # << >>

\* C1: every call of close_position on an open position, by the exit rule or
\* by the final force-close, adds to cash exactly the pnl of the Trade it
\* appends, appends exactly one Trade, and leaves the position out of the
\* open positions.
C1_CloseConservesCash ==
    [][ (AtCloseCall
         /\ Head(positions_to_close).object \in OpenObjects(positions))
        => /\ Len(trades') = Len(trades) + 1
           /\ IsPrefix(trades, trades')
           /\ cash' = cash + trades'[Len(trades')].pnl
           /\ Head(positions_to_close).object \notin OpenObjects(positions')
           /\ Len(positions') = Len(positions) - 1 ]_vars

\* a rule-based exit with a loss and a force-close with a gain have happened
C1_Witness ==
    /\ pc = "done"
    /\ \E i, j \in 1..Len(trades) :
           /\ trades[i].pnl < 0
           /\ trades[i].exit_date > trades[i].entry_date
           /\ trades[j].pnl > 0
           /\ trades[j].exit_date = trades[j].entry_date

\* C2: in every state of a run the number of open positions is at most
\* config.max_concurrent_trades.
C2_MaxConcurrent == Len(positions) <= config.max_concurrent_trades

\* the entry loop has passed two strategies on different symbols; the first
\* is open, the limit of 1 is reached, and only the limit kept the second out
C2_Witness ==
    /\ pc = "entries"
    /\ entry_index = 3
    /\ config.max_concurrent_trades = 1
    /\ Len(positions) = 1
    /\ positions[1].strategy_index = 1
    /\ strategies[2].symbol # positions[1].symbol
    /\ calculate_position_size(strategies[2]) > 0
    /\ ~is_expired(strategies[2])
    /\ strategies[2].class = "Straddle"

\* C3: in every state of a run no two open positions have the same symbol.
C3_OnePositionPerSymbol ==
    \A i, j \in 1..Len(positions) :
        i # j => positions[i].symbol # positions[j].symbol

\* two registered strategies share a symbol, the first is open, and the
\* second passed should_enter_trade and was kept out by the open position
C3_Witness ==
    /\ pc = "entries"
    /\ entry_index = 3
    /\ strategies[1].symbol = strategies[2].symbol
    /\ Len(positions) = 1
    /\ positions[1].strategy_index = 1
    /\ should_enter_trade(strategies[2])

\* floor(cash x risk_per_trade / |max_loss|) for the strategy a position was
\* opened from, with the cash held when it was opened
UncappedSize(p) ==
    (p.cash_at_entry * config.risk_per_trade)
        \div (100 * Abs(get_max_loss(OwnStrategy(p))))

\* C4: the quantity of every open position is min(floor(cash x
\* risk_per_trade / |max_loss|), 10) for the cash at the moment of entry,
\* hence between 1 and 10; with cash 10000.00, risk 0.02 and max_loss 2.50
\* the uncapped size is 80 and the quantity 10.
C4_PositionSize ==
    \A i \in 1..Len(positions) :
        LET p == positions[i]
        IN  /\ get_max_loss(OwnStrategy(p)) # 0
            /\ p.quantity = Min(UncappedSize(p), 10)
            /\ 1 <= p.quantity /\ p.quantity <= 10
            /\ (p.cash_at_entry = 1000000
                /\ config.risk_per_trade = 2
                /\ Abs(get_max_loss(OwnStrategy(p))) = 250)
               => (UncappedSize(p) = 80 /\ p.quantity = 10)

\* the documented scenario (size 80, capped to 10) beside a position whose
\* size is below the cap
C4_Witness ==
    \E i, j \in 1..Len(positions) :
        /\ positions[i].cash_at_entry = 1000000
        /\ get_max_loss(OwnStrategy(positions[i])) = 250
        /\ positions[i].quantity = 10
        /\ positions[j].quantity = 7

\* C5: a strategy whose get_max_loss() is zero or negative is never
\* entered: no open position was opened from such a strategy.
C5_NonPositiveMaxLossNeverEntered ==
    \A i \in 1..Len(positions) : get_max_loss(OwnStrategy(positions[i])) > 0

\* C6: a position is opened for a strategy carrying net_credit only when its
\* days to expiration are within 30..45, and for a strategy carrying
\* total_cost only when they are within 15..30, whatever the first
\* registered strategy is.
C6_EntryWindows ==
    \A i \in 1..Len(positions) :
        LET s == OwnStrategy(positions[i])
            days_to_exp == days_to_expiration(s)
        IN  /\ hasattr(s, "net_credit")
               => (30 <= days_to_exp /\ days_to_exp <= 45)
            /\ hasattr(s, "total_cost")
               => (15 <= days_to_exp /\ days_to_exp <= 30)

\* the four conditions of the exit rule for position p and strategy s, at
\* the current date
ExitConditions(p, s) ==
    \/ is_expired(s)
    \/ 2 * (current_date - p.entry_date) >= days_to_expiration(s)
    \/ /\ get_max_profit(s) # Infinity
       /\ 2 * p.unrealized_pnl >= get_max_profit(s).value
    \/ 2 * p.unrealized_pnl <= get_max_loss(s)

\* C7: at each day step, after the price update, an open position is closed
\* by rule if and only if its strategy is expired, or it was held for half
\* the days to expiration, or max_profit is finite and the unrealized pnl is
\* at least half of it, or the unrealized pnl is at most half of max_loss.
C7_ExitRule ==
    [][ /\ pc = "exits"
           => positions_to_close' =
                  SelectSeq(positions,
                            LAMBDA p : ExitConditions(p, OwnStrategy(p)))
        /\ (pc = "close" /\ positions_to_close # << >>)
           => OpenObjects(positions') =
                  OpenObjects(positions)
                      \ { Head(positions_to_close).object } ]_vars

\* the exit rule as the engine applies it: to the first registered strategy
\* with the position's symbol
C7_ExitRuleOnFirstOfSymbol ==
    [][ /\ pc = "exits"
           => positions_to_close' =
                  SelectSeq(positions,
                            LAMBDA p :
                                ExitConditions(
                                    p,
                                    strategies[find_strategy(strategies,
                                                             p.symbol)]))
        /\ (pc = "close" /\ positions_to_close # << >>)
           => OpenObjects(positions') =
                  OpenObjects(positions)
                      \ { Head(positions_to_close).object } ]_vars

\* no two registered strategies share a symbol
DistinctSymbols ==
    \A i, j \in 1..Len(strategies) :
        i # j => strategies[i].symbol # strategies[j].symbol

C7_ExitRuleDistinctSymbols ==
    [][ (DistinctSymbols /\ pc = "exits")
        => positions_to_close' =
               SelectSeq(positions,
                         LAMBDA p : ExitConditions(p, OwnStrategy(p))) ]_vars

RunEnded == pc \in {"done", "raised"}

\* an upper bound on the steps run_simulation has left: a day takes at most
\* 2 * Len(strategies) + 4 of them, the final closing Len(strategies) + 2
StepsLeft ==
    LET n == Len(strategies)
        days_left == Max(config.simulation_days - day, 0)
        finish == n + 2
    IN  CASE pc = "idle" -> days_left * (2 * n + 4) + finish + 1
          [] pc = "loop" -> days_left * (2 * n + 4) + finish
          [] pc = "exits" -> days_left * (2 * n + 4) + finish - 1
          [] pc = "close" ->
                 (days_left - 1) * (2 * n + 4) + finish + n + 2
                 + Len(positions_to_close)
          [] pc = "entries" ->
                 (days_left - 1) * (2 * n + 4) + finish + 1
                 + (n + 1 - entry_index)
          [] pc = "final" -> 1 + Len(positions_to_close)
          [] OTHER -> 0

\* C8: run_simulation terminates for every simulation_days >= 0 (each step
\* lowers StepsLeft, which is never negative, and a step is possible until
\* the run has ended), and when it returns no position is open, every
\* position opened in the run was closed by close_position exactly once, and
\* total_trades is the number of positions opened.
C8_TerminatesAllClosed ==
    /\ [][ run' = run => StepsLeft' < StepsLeft ]_vars
    /\ [](StepsLeft >= 0)
    /\ [](~RunEnded => ENABLED Next)
    /\ [](pc = "done"
          => /\ positions = << >>
             /\ result.total_trades = opened
             /\ Len(closed_objects) = opened
             /\ \A i, j \in 1..Len(closed_objects) :
                    i # j => closed_objects[i] # closed_objects[j]
             /\ { closed_objects[i] : i \in 1..Len(closed_objects) }
                    = (next_object - opened)..(next_object - 1))

\* a run has returned after rule-based exits and the force-close of a
\* position opened on the last day
C8_Witness ==
    /\ pc = "done"
    /\ opened >= 3
    /\ config.simulation_days = 3
    /\ \E i, j \in 1..Len(trades) :
           /\ trades[i].exit_date > trades[i].entry_date
           /\ trades[j].exit_date = trades[j].entry_date
           /\ trades[j].entry_date = 2

\* C9: a closed position is final: within a run the trade history only
\* grows by appending, so a Trade stays with its fields unchanged, and no
\* closed Position object is an open position again; an entry on the same
\* symbol is a new object.
C9_ClosedIsFinal ==
    /\ [][ pc # "idle" => IsPrefix(trades, trades') ]_vars
    /\ [](\A i \in 1..Len(positions) :
              \A j \in 1..Len(closed_objects) :
                  positions[i].object # closed_objects[j])
    /\ [][ \A i \in 1..Len(positions') :
               positions'[i].object \notin OpenObjects(positions)
               => positions'[i].object >= next_object ]_vars

\* a symbol was closed and entered again while another position stayed open
C9_Witness ==
    /\ Len(positions) = 2
    /\ \E i \in 1..Len(positions) : \E j \in 1..Len(trades) :
           /\ trades[j].symbol = positions[i].symbol
           /\ positions[i].entry_date = trades[j].exit_date
    /\ \E i \in 1..Len(positions) : positions[i].entry_date < current_date

C11_ResetAtRunStart ==
    /\ [][ (pc = "idle" /\ pc' = "loop")
           => /\ cash' = config.initial_capital
              /\ positions' = << >>
              /\ trades' = << >> ]_vars
    /\ [](pc = "done"
          => /\ result.trades = trades
             /\ result.total_trades = Len(closed_objects)
             /\ result.total_trades = opened
             /\ run = 2
                => \A i \in 1..Len(result.trades), j \in 1..Len(first_history) :
                       result.trades[i] # first_history[j])

\* a second run has returned on an engine whose first run left trades
\* behind and changed its cash
C11_Witness ==
    /\ run = 2
    /\ pc = "done"
    /\ Len(first_history) = 1
    /\ first_history[1].pnl # 0
    /\ result.total_trades >= 1
    /\ result.total_trades = opened

\* C12: over set_config, execute_trade, close_position and repeated runs of
\* one engine, trade_counter never decreases and no two Trade records of the
\* trade history have the same id.
C12_CounterMonotoneUniqueIds ==
    /\ [][trade_counter' >= trade_counter]_vars
    /\ [](\A i, j \in 1..Len(trades) : i # j => trades[i].id # trades[j].id)

\* the second run of an engine has closed two positions, after an
\* execute_trade call took an id of its own
C12_Witness ==
    /\ run = 2
    /\ Len(trades) >= 2
    /\ trade_counter > Len(first_history) + Len(trades)

\* the trades of a list whose pnl satisfies a sign test
Winners(ts) == { i \in 1..Len(ts) : ts[i].pnl > 0 }
Losers(ts) == { i \in 1..Len(ts) : ts[i].pnl < 0 }

\* C13: a run that produces no trade never raises, whatever the
\* configuration, and returns total_trades, winning_trades, losing_trades,
\* win_rate and total_return all 0.
C13_ZeroTradeRunNeverRaises ==
    (RunEnded /\ trades = << >>)
        => /\ pc = "done"
           /\ result.total_trades = 0
           /\ result.winning_trades = 0
           /\ result.losing_trades = 0
           /\ result.win_rate.num = 0
           /\ result.total_return.num = 0

\* the same for the configurations whose initial_capital is not 0
C13_ZeroTradeRunNonZeroCapital ==
    (RunEnded /\ trades = << >> /\ config.initial_capital # 0)
        => /\ pc = "done"
           /\ result.total_trades = 0
           /\ result.winning_trades = 0
           /\ result.losing_trades = 0
           /\ result.win_rate.num = 0
           /\ result.total_return.num = 0

\* C14: the win rate returned is winning_trades / total_trades x 100 when
\* total_trades > 0 and 0 when total_trades = 0, and lies between 0 and 100.
C14_WinRate ==
    pc = "done"
        => LET T == Len(result.trades)
               W == Cardinality(Winners(result.trades))
               rate == result.win_rate
           IN  /\ result.total_trades = T
               /\ result.winning_trades = W
               /\ rate.den > 0
               /\ T > 0 => rate.num * T = W * 100 * rate.den
               /\ T = 0 => rate.num = 0
               /\ 0 <= rate.num
               /\ rate.num <= 100 * rate.den

\* a run has returned with a winning and a losing trade: a win rate of 50
C14_Witness ==
    /\ pc = "done"
    /\ result.total_trades = 2
    /\ Cardinality(Winners(result.trades)) = 1
    /\ Cardinality(Losers(result.trades)) = 1
    /\ result.win_rate.num = 50 * result.win_rate.den

\* C15: in the result winning_trades is the number of trades with pnl > 0
\* and losing_trades the number of trades with pnl < 0; a trade closed with
\* pnl 0 is counted in neither.
C15_WinLossBySign ==
    pc = "done"
        => /\ result.winning_trades = Cardinality(Winners(result.trades))
           /\ result.losing_trades = Cardinality(Losers(result.trades))

\* what the documented domain asks of a strategy's parameters
NonNegative(s) ==
    /\ \A i \in 1..Len(Strikes(s)) : Strikes(s)[i] >= 0
    /\ \A i \in 1..Len(Premiums(s)) : Premiums(s)[i] >= 0

Valid(s) == NonNegative(s) /\ s.expiration > s.entry_date

StrictlyOrdered(q) == \A i \in 1..(Len(q) - 1) : q[i] < q[i + 1]

\* non-negative parameters and strikes that are all different, in the order
\* of the variant
WellFormed(s) == NonNegative(s) /\ StrictlyOrdered(Strikes(s))

\* a Butterfly's wings have the same width
EqualWings(s) ==
    s.class = "Butterfly"
        => s.middle_strike - s.low_strike = s.high_strike - s.middle_strike

\* C16: a strategy with a negative strike, a negative premium or an
\* expiration that is not strictly after its entry date is rejected at
\* construction: no such object ever exists.
C16_InvalidRejectedAtConstruction ==
    probe.phase # "none" => Valid(probe.strategy)

\* C17: for every variant constructed with non-negative strikes and
\* premiums, get_max_loss() is never negative.
C17_MaxLossNeverNegative ==
    (probe.phase = "max_profit_loss" /\ NonNegative(probe.strategy))
        => probe.max_loss >= 0

\* C18: for every variant and every spot >= 0, calculate_payoff(spot) is at
\* least -get_max_loss() and, when get_max_profit() is finite, at most
\* get_max_profit(); Butterflies with wings of different widths included.
C18_PayoffWithinBounds ==
    (probe.phase = "profit_loss" /\ WellFormed(probe.strategy))
        => \A spot \in DOMAIN probe.profit_loss :
               /\ probe.profit_loss[spot] >= -get_max_loss(probe.strategy)
               /\ ~get_max_profit(probe.strategy).inf
                  => probe.profit_loss[spot]
                         <= get_max_profit(probe.strategy).value

\* the same, Butterflies with wings of different widths left out
C18_PayoffWithinBoundsEqualWings ==
    (probe.phase = "profit_loss" /\ WellFormed(probe.strategy)
     /\ EqualWings(probe.strategy))
        => \A spot \in DOMAIN probe.profit_loss :
               /\ probe.profit_loss[spot] >= -get_max_loss(probe.strategy)
               /\ ~get_max_profit(probe.strategy).inf
                  => probe.profit_loss[spot]
                         <= get_max_profit(probe.strategy).value

\* The payoff is linear between two neighbouring strikes, and the spot
\* prices k - 2, k - 1 and k + 1, k + 2 lie within the pieces left and right
\* of a strike k: the pieces meet at k when both, extended to k, give the
\* payoff at k.
ContinuousAt(f, k) ==
    /\ 2 * f[k - 1] - f[k - 2] = f[k]
    /\ 2 * f[k + 1] - f[k + 2] = f[k]

\* C19: calculate_payoff is continuous in spot: at every strike where the
\* formula changes branch the two adjacent linear pieces give the same
\* value.
C19_PayoffContinuous ==
    (probe.phase = "profit_loss" /\ WellFormed(probe.strategy))
        => \A i \in 1..Len(Strikes(probe.strategy)) :
               ContinuousAt(probe.profit_loss, Strikes(probe.strategy)[i])

\* the same, Butterflies with wings of different widths left out
C19_PayoffContinuousEqualWings ==
    (probe.phase = "profit_loss" /\ WellFormed(probe.strategy)
     /\ EqualWings(probe.strategy))
        => \A i \in 1..Len(Strikes(probe.strategy)) :
               ContinuousAt(probe.profit_loss, Strikes(probe.strategy)[i])

\* C20: get_break_even_points() returns 1 or 2 prices in ascending order,
\* and calculate_payoff at each of them is exactly 0.
C20_BreakEvenPayoffZero ==
    (probe.phase = "break_even" /\ WellFormed(probe.strategy))
        => /\ Len(probe.break_even_points) \in {1, 2}
           /\ Ordered(probe.break_even_points)
           /\ \A i \in 1..Len(probe.payoffs) : probe.payoffs[i] = 0

\* the same for the strategies whose premiums lie within the widths of their
\* spreads: a net debit between 0 and the spread (or wing) width, a credit
\* of at most the narrower spread, wings of the same width
WithinWidth(s) ==
    CASE s.class = "IronCondor" ->
             /\ s.net_credit <= s.long_call_strike - s.short_call_strike
             /\ s.net_credit <= s.short_put_strike - s.long_put_strike
      [] s.class = "CallSpread" ->
             /\ 0 <= s.net_debit
             /\ s.net_debit <= s.sell_strike - s.buy_strike
      [] s.class = "PutSpread" ->
             /\ 0 <= s.net_debit
             /\ s.net_debit <= s.buy_strike - s.sell_strike
      [] s.class = "Butterfly" ->
             /\ EqualWings(s)
             /\ 0 <= s.net_debit
             /\ s.net_debit <= s.middle_strike - s.low_strike
      [] OTHER -> TRUE

C20_BreakEvenPayoffZeroWithinWidth ==
    (probe.phase = "break_even" /\ WellFormed(probe.strategy)
     /\ WithinWidth(probe.strategy))
        => /\ Len(probe.break_even_points) \in {1, 2}
           /\ Ordered(probe.break_even_points)
           /\ \A i \in 1..Len(probe.payoffs) : probe.payoffs[i] = 0

\* C21: risk_reward_ratio is max_profit / |max_loss| whenever max_loss is
\* not 0, +infinity when max_profit is the +infinity sentinel; when max_loss
\* is 0 it is +infinity if max_profit > 0 and 0 otherwise.
C21_RiskRewardRatio ==
    probe.phase = "analysis"
        => LET max_profit == probe.max_profit
               max_loss == Abs(probe.max_loss)
               ratio == probe.risk_reward_ratio
           IN  IF max_loss # 0
               THEN IF max_profit.inf THEN ratio.inf
                    ELSE /\ ~ratio.inf
                         /\ ratio.den > 0
                         /\ ratio.num * max_loss = max_profit.value * ratio.den
               ELSE IF max_profit.inf \/ max_profit.value > 0
                    THEN ratio.inf
                    ELSE ~ratio.inf /\ ratio.num = 0

\* the same for the strategies whose max_profit is finite
C21_RiskRewardRatioFiniteProfit ==
    (probe.phase = "analysis" /\ ~probe.max_profit.inf)
        => LET max_profit == probe.max_profit
               max_loss == Abs(probe.max_loss)
               ratio == probe.risk_reward_ratio
           IN  IF max_loss # 0
               THEN /\ ~ratio.inf
                    /\ ratio.den > 0
                    /\ ratio.num * max_loss = max_profit.value * ratio.den
               ELSE IF max_profit.value > 0
                    THEN ratio.inf
                    ELSE ~ratio.inf /\ ratio.num = 0

\* the conditions of the labels, on the values of the analysis
StrongBuy(a) ==
    /\ a.expected_value > 0
    /\ a.risk_reward_ratio.inf
       \/ 2 * a.risk_reward_ratio.num > 3 * a.risk_reward_ratio.den
    /\ a.probability_of_profit > 6
Buy(a) ==
    /\ a.expected_value > 0
    /\ a.risk_reward_ratio.inf
       \/ a.risk_reward_ratio.num > a.risk_reward_ratio.den
    /\ a.probability_of_profit > 5
WeakBuy(a) == a.expected_value > 0
Avoid(a) == 2 * a.expected_value < -(10 * Abs(a.max_loss))

\* C22: the recommendation is the first match of STRONG BUY (ev > 0,
\* rr > 1.5, p > 0.6), BUY (ev > 0, rr > 1.0, p > 0.5), WEAK BUY (ev > 0),
\* AVOID (ev < -0.5 x |max_loss|), and HOLD otherwise; exactly one label is
\* returned for every strategy.
C22_Recommendation ==
    probe.phase = "analysis"
        => LET label == probe.recommendation
           IN  /\ label \in {"STRONG BUY", "BUY", "WEAK BUY", "AVOID", "HOLD"}
               /\ label = "STRONG BUY" <=> StrongBuy(probe)
               /\ label = "BUY" <=> (~StrongBuy(probe) /\ Buy(probe))
               /\ label = "WEAK BUY"
                  <=> (~StrongBuy(probe) /\ ~Buy(probe) /\ WeakBuy(probe))
               /\ label = "AVOID" <=> (~WeakBuy(probe) /\ Avoid(probe))
               /\ label = "HOLD" <=> (~WeakBuy(probe) /\ ~Avoid(probe))

\* a strategy is labelled BUY: the conditions of STRONG BUY fail on the
\* probability alone
C22_Witness ==
    /\ probe.phase = "analysis"
    /\ probe.recommendation = "BUY"
    /\ probe.expected_value > 0
    /\ 2 * probe.risk_reward_ratio.num > 3 * probe.risk_reward_ratio.den
    /\ probe.probability_of_profit = 6

\* the dashboard thread is inside get_portfolio, between its reads
InLedgerRead == trader.dashboard = "portfolio_return"
\* the trading thread is inside add_strategy
InEngineWrite == trader.trading = "add_strategy"

RECURSIVE SumPnl(_)
\* the sum of pnl over a list of trades
SumPnl(ts) == IF ts = << >> THEN 0 ELSE Head(ts).pnl + SumPnl(Tail(ts))

\* run_simulation is between its reset and its return
InRun == pc \in {"loop", "exits", "close", "entries", "final", "done"}

\* C24: in every state reached during run_simulation, cash is
\* config.initial_capital plus the sum of pnl over the trades recorded so far
\* in this run; a run in which no position was ever opened ends with zero
\* trades and cash equal to the initial capital.
C24_CashConservation ==
    /\ InRun => cash = config.initial_capital + SumPnl(trades)
    /\ (pc = "done" /\ opened = 0) =>
           /\ trades = << >>
           /\ cash = config.initial_capital
           /\ result.total_trades = 0
           /\ result.final_value = config.initial_capital

\* a run has closed positions with a non-zero total and opened another
\* position since
C24_Witness ==
    /\ pc = "entries"
    /\ SumPnl(trades) # 0
    /\ positions # << >>
    /\ positions[Len(positions)].entry_date = current_date

\* a run over registered strategies none of which triggered entry has ended
C24_WitnessNoEntry ==
    /\ pc = "done"
    /\ opened = 0
    /\ strategies # << >>
    /\ config.simulation_days > 0

\* the prices at which a piecewise linear payoff can take its least value:
\* 0, the strikes, and a price beyond every strike
Kinks(s) == {0, 100000} \cup { Strikes(s)[i] : i \in 1..Len(Strikes(s)) }

\* a strategy whose max_loss is positive and bounds its payoff from below
WellFormedPayoff(s) ==
    /\ get_max_loss(s) > 0
    /\ \A price \in Kinks(s) : calculate_payoff(s, price) >= -get_max_loss(s)

\* the step is a call of close_position that records a trade
CloseRecorded == AtCloseCall /\ Len(trades') = Len(trades) + 1

\* C25: for every trade recorded by run_simulation, the realized loss is at
\* most risk_per_trade times the cash held when the position was opened, for
\* every registered list of well-formed strategies (positive max_loss that
\* bounds the payoff from below).
C25_RiskCappedLoss ==
    [][(/\ CloseRecorded
        /\ \A i \in 1..Len(strategies) : WellFormedPayoff(strategies[i]))
       => LET p == Head(positions_to_close)
              t == trades'[Len(trades')]
          IN  t.pnl < 0 =>
                  -t.pnl * 100 <= config.risk_per_trade * p.cash_at_entry]_vars

\* a trade with a loss has been recorded in a run over well-formed strategies
C25_Witness ==
    /\ InRun
    /\ \A i \in 1..Len(strategies) : WellFormedPayoff(strategies[i])
    /\ \E i \in 1..Len(trades) : trades[i].pnl < 0

\* the loss bound of C25 for the positions whose symbol looks up the
\* strategy they were opened from
C25_RiskCappedLossOwnStrategy ==
    [][(/\ CloseRecorded
        /\ \A i \in 1..Len(strategies) : WellFormedPayoff(strategies[i])
        /\ find_strategy(strategies, Head(positions_to_close).symbol)
               = Head(positions_to_close).strategy_index)
       => LET p == Head(positions_to_close)
              t == trades'[Len(trades')]
          IN  t.pnl < 0 =>
                  -t.pnl * 100 <= config.risk_per_trade * p.cash_at_entry]_vars

\* the step is update_positions
UpdateStep == pc = "loop" /\ pc' = "exits"

\* after the step the P&L of every position that update_positions has
\* repriced, and of the Trade close_position has recorded, is the payoff of
\* the strategy the position was opened from
OwnPayoffUsed ==
    /\ UpdateStep =>
           \A i \in 1..Len(positions') :
               LET p == positions'[i]
               IN  find_strategy(strategies, p.symbol) # 0 =>
                       p.unrealized_pnl =
                           calculate_payoff(OwnStrategy(p), p.current_price)
                           * p.quantity
    /\ CloseRecorded =>
           LET p == Head(positions_to_close)
           IN  trades'[Len(trades')].pnl =
                   calculate_payoff(OwnStrategy(p), p.current_price)
                   * p.quantity

\* C26: the unrealized P&L of an open position and the realized P&L of its
\* Trade are always computed with calculate_payoff of the strategy the
\* position was opened from, also when registered strategies share a symbol.
C26_OwnStrategyPnl == [][OwnPayoffUsed]_vars

\* the property of C26 for lists without a shared symbol
C26_OwnStrategyPnlDistinctSymbols ==
    [][DistinctSymbols => OwnPayoffUsed]_vars

\* across a close the realized P&L is the unrealized P&L the position
\* carried, and the total_value of get_portfolio is unchanged
CloseConservesTotalValue ==
    LET p == Head(positions_to_close)
    IN  /\ trades'[Len(trades')].pnl = p.unrealized_pnl
        /\ (get_portfolio.total_value)' = get_portfolio.total_value

\* C27: the realized P&L recorded when a position is closed equals the
\* unrealized P&L the position carried immediately before, so the total_value
\* of the portfolio snapshot is the same before and after every close,
\* including the final close of a position opened on the last simulated day.
C27_CloseConservesTotalValue ==
    [][CloseRecorded => CloseConservesTotalValue]_vars

\* the property of C27 for the positions that update_positions has repriced
\* since they were opened
C27_CloseConservesTotalValueAfterUpdate ==
    [][(CloseRecorded /\ Head(positions_to_close).entry_date < current_date)
       => CloseConservesTotalValue]_vars

\* C28: in every state reached during run_simulation all open positions have
\* pairwise different identifiers, also after a position has been closed and
\* a new one opened while other positions remain open.
C28_OpenPositionIdsUnique ==
    InRun =>
        \A i, j \in 1..Len(positions) :
            positions[i].id = positions[j].id => i = j

\* the identifiers are pairwise different as long as no position has been
\* closed while another stayed open
C28_OpenPositionIdsUniqueUntilClose ==
    (InRun /\ (closed_objects = << >> \/ config.max_concurrent_trades <= 1)) =>
        \A i, j \in 1..Len(positions) :
            positions[i].id = positions[j].id => i = j

\* the step opens a position
OpenStep == Len(positions') = Len(positions) + 1

\* C29: within one day step the order is price update, then exit evaluation,
\* then entry evaluation.  When the exit rule is evaluated every open
\* position was opened on an earlier day and has been repriced today; the
\* exit rule closes no position opened on the same day; a position is opened
\* only after the day's closes, dated today, and is not repriced that day.
C29_DayStepOrder ==
    [][/\ pc = "exits" =>
              \A i \in 1..Len(positions) :
                  LET p == positions[i]
                      k == find_strategy(strategies, p.symbol)
                  IN  /\ p.entry_date < current_date
                      /\ k # 0 =>
                             p.unrealized_pnl =
                                 calculate_payoff(strategies[k],
                                                  p.current_price)
                                 * p.quantity
       /\ (pc = "close" /\ positions_to_close # << >>) =>
              Head(positions_to_close).entry_date < current_date
       /\ OpenStep =>
              /\ pc = "entries"
              /\ positions_to_close = << >>
              /\ positions'[Len(positions')].entry_date = current_date
              /\ positions'[Len(positions')].unrealized_pnl = 0
       /\ UpdateStep =>
              /\ Len(positions') = Len(positions)
              /\ trades' = trades]_vars

\* a symbol whose position the exit rule closed today has been entered again
\* on the same day
C29_Witness ==
    /\ pc = "entries"
    /\ \E i \in 1..Len(positions), j \in 1..Len(trades) :
           /\ positions[i].symbol = trades[j].symbol
           /\ positions[i].entry_date = current_date
           /\ trades[j].exit_date = current_date
           /\ trades[j].entry_date < current_date

\* the positions the exit rule has evaluated and left open today lie strictly
\* between half of the maximum loss and half of the maximum profit of the
\* whole position
SurvivorBounds ==
    pc = "entries" =>
        \A i \in 1..Len(positions) :
            LET p == positions[i]
                s == OwnStrategy(p)
            IN  p.entry_date < current_date =>
                    /\ -get_max_loss(s) * p.quantity < 2 * p.unrealized_pnl
                    /\ ~get_max_profit(s).inf =>
                           2 * p.unrealized_pnl
                               < get_max_profit(s).value * p.quantity

\* the exit evaluation leaves open every position with an unrealized P&L of
\* 0 that is neither expired nor held for half of its days to expiration
ZeroPnlKept ==
    pc = "exits" =>
        \A i \in 1..Len(positions) :
            LET p == positions[i]
                k == find_strategy(strategies, p.symbol)
            IN  (/\ k # 0
                 /\ p.unrealized_pnl = 0
                 /\ ~is_expired(strategies[k])
                 /\ 2 * (current_date - p.entry_date)
                        < days_to_expiration(strategies[k]))
                => \A j \in 1..Len(positions_to_close') :
                       positions_to_close'[j].object # p.object

\* C30: a position left open by the exit rule of the day has an unrealized
\* P&L strictly between -0.5 x max_loss x quantity and 0.5 x max_profit x
\* quantity (the latter when max_profit is finite), and a position with an
\* unrealized P&L of 0 is not closed by the profit-target or loss-limit
\* conditions.
C30_ExitThresholds == [][SurvivorBounds /\ ZeroPnlKept]_vars

\* the first half of C30 alone
C30_SurvivorBounds == SurvivorBounds

\* a position has been left open by the exit rule of the day
C30_SurvivorReached ==
    /\ pc = "entries"
    /\ \E i \in 1..Len(positions) : positions[i].entry_date < current_date

=============================================================================
